---- MODULE Spec2Model ----
(***************************************************************************)
(* Model of the radar dashboard client (ui-service): the session store of  *)
(* services/auth.ts, the guarded telemetry calls of services/aws.ts, the   *)
(* LiveView page (stream state machine, detection polling, device          *)
(* commands) and the App shell that mounts and unmounts it.                *)
(***************************************************************************)
EXTENDS Integers, FiniteSets, Sequences, TLC

\* ------------------------------------------------------------------ bounds
MaxLogins == 2
MaxReq == 3
MaxTimers == 2
MaxAttempts == 2
MaxCmds == 2
\* the gate's clock and cooldown count steps of 500 ms
MaxTime == 8
MaxCooldown == 6

\* --------------------------------------------------------------- constants
\* UPLOAD_DEBOUNCE_SECONDS = 3.0, in steps of 500 ms
UPLOAD_DEBOUNCE == 6

NULL == "null"

\* sessionStorage.getItem of a missing key (tokens are numbered from 1)
NoToken == 0

VARIABLES
    sessionStorage,     \* browser sessionStorage: access_token, username
    authenticated,      \* App: useState(false)
    page,               \* App: useState<Page>("live")
    loginLoading,       \* Login: a login() call is in flight
    loginError,         \* Login: error message shown
    nextToken,          \* next access token the /login endpoint issues
    expired,            \* tokens whose 60 minutes have passed
    streamState,        \* LiveView: "idle" | "connecting" | "streaming" | "error"
    streamError,        \* LiveView: message shown in state "error"
    hasVideo,           \* LiveView: the <video> is playing
    videoSrc,           \* videoRef.current.srcObject: 0 or the id of the pc whose stream is attached
    playPending,        \* a videoRef.current.play() promise has not settled
    pcs,                \* RTCPeerConnection objects created so far, none is ever closed
    controlLoading,     \* LiveView: null | "stop" | "threat"
    controlMsg,         \* LiveView: outcome message of the last command
    cmds,               \* command requests in flight to the device
    nextCmd,            \* id of the next command request
    detData,            \* LiveView: the visible snapshot
    detectionsLoading,  \* LiveView: a refreshDetections() is in flight
    autoRefresh,        \* LiveView: auto-refresh toggle
    timers,             \* ids of the live setInterval timers
    effectTimer,        \* interval id held by the current auto-refresh effect's cleanup
    nextTimer,          \* id of the next setInterval timer
    reqs,               \* authenticatedFetch requests in flight
    nextReq,            \* id of the next authenticatedFetch request
    entries,            \* UploadGate: category -> lastReportedAt of its GateEntry, or NoEntry
    now,                \* edge clock
    cooldown,           \* the gate's cooldown
    present,            \* categories visible in the current detection cycle
    lastReport,         \* observer: when shouldReport last returned true for a category
    absentSince         \* observer: the category was observed absent since that report

session == <<sessionStorage, expired>>
app == <<authenticated, page, loginLoading, loginError, nextToken>>
stream == <<streamState, streamError, hasVideo, videoSrc, playPending, pcs>>
control == <<controlLoading, controlMsg, cmds, nextCmd>>
poller == <<detData, detectionsLoading, autoRefresh, timers, effectTimer, nextTimer, reqs, nextReq>>
gate == <<entries, now, cooldown, present, lastReport, absentSince>>
ui == <<session, app, stream, control, poller>>
vars == <<session, app, stream, control, poller, gate>>

\* ---------------------------------------------------------- services/auth
NoSession == [access_token |-> NoToken, username |-> NULL]

\* localStorage is only ever cleared by this code, never written
localStorage == [access_token |-> NoToken, username |-> NULL]

getTokenOf(store) ==
    IF store.access_token # NoToken THEN store.access_token ELSE localStorage.access_token

getToken == getTokenOf(sessionStorage)

getUsername ==
    IF sessionStorage.username # NULL THEN sessionStorage.username ELSE localStorage.username

isAuthenticated == getToken # NoToken

\* logout removing the token and leaving the username
logoutKeepsUsername == [access_token |-> NoToken, username |-> "testuser"]

\* logout(): removeItem of both keys, whatever is stored
logout == NoSession

\* error messages thrown by the services
MsgNoToken == "No authentication token found. Please login."
MsgExpired == "Session expired. Please login again."
MsgFetch == "Failed to fetch"
MsgHttp == "AWS /detections failed: 500"
MsgHttpBody == "AWS /detections failed: 403 - please login"

\* error.message.includes('login')
IncludesLogin(msg) == msg \in {MsgNoToken, MsgExpired, MsgHttpBody}

\* what the remote can answer to a request
RespKinds == {"ok", "okEmpty", "unauthorized", "httpError", "httpErrorLogin", "networkError"}

\* authenticatedFetch sending its request whatever getToken() returned
HasTokenUnchecked(tok) == TRUE

\* authenticatedFetch's test of the token it read: if (!token) throw
HasToken(tok) == tok # NoToken

\* authenticatedFetch calling logout() on every answer that is not a success
authenticatedFetchLogoutOnError(resp, store) ==
    IF resp \in {"ok", "okEmpty"} THEN store ELSE NoSession

\* authenticatedFetch without the logout() of its 401 branch
authenticatedFetchKeepsStore(resp, store) == store

\* authenticatedFetch after the response arrived: the session storage it leaves
authenticatedFetchStore(resp, store) ==
    IF resp = "unauthorized" THEN logout ELSE store

\* authenticatedFetch after the response arrived: what it returns or throws
authenticatedFetchResult(resp) ==
    CASE resp = "unauthorized" -> [throws |-> TRUE, msg |-> MsgExpired, status |-> "401"]
      [] resp = "networkError" -> [throws |-> TRUE, msg |-> MsgFetch, status |-> "none"]
      [] OTHER -> [throws |-> FALSE, msg |-> "", status |-> resp]

\* ----------------------------------------------------------- services/aws
EmptyDetections == "empty"

\* getLatestDetections after authenticatedFetch settled: the value it resolves
\* with, or the error it re-throws
\* getLatestDetections' catch re-throwing every error
catchRethrows(msg) ==
    [throws |-> TRUE, msg |-> msg, data |-> EmptyDetections, caught |-> TRUE]

\* getLatestDetections' catch: errors naming 'login' are re-thrown, any other
\* is replaced by empty detections
getLatestDetectionsCatch(msg) ==
    IF IncludesLogin(msg)
    THEN [throws |-> TRUE, msg |-> msg, data |-> EmptyDetections, caught |-> TRUE]
    ELSE [throws |-> FALSE, msg |-> "", data |-> EmptyDetections, caught |-> TRUE]

getLatestDetectionsResult(resp) ==
    LET res == authenticatedFetchResult(resp)
        msg == IF res.throws THEN res.msg
               ELSE IF resp = "httpErrorLogin" THEN MsgHttpBody
               ELSE IF resp = "httpError" THEN MsgHttp
               ELSE ""
    IN  IF msg # ""
        THEN getLatestDetectionsCatch(msg)
        ELSE [throws |-> FALSE, msg |-> "", caught |-> FALSE,
              data |-> IF resp = "okEmpty" THEN EmptyDetections ELSE "items"]

\* getLatestDetections when authenticatedFetch finds no token: nothing is sent
getLatestDetectionsNoToken == getLatestDetectionsCatch(MsgNoToken)

\* authenticatedFetch sending the token of the first login it saw
headerTokenCached(tok) == IF tok = NoToken THEN tok ELSE 1

\* the token in the Authorization header: the one getToken() just returned
headerToken(tok) == tok

\* the request authenticatedFetch sends: it carries the token read at dispatch
Req(id, src, token, timer) ==
    [id |-> id, src |-> src, token |-> headerToken(token), timer |-> timer,
     alive |-> TRUE, resp |-> "pending"]

\* poll()'s catch without its clearInterval
pollCatchKeepsTimer(msg, timer, live) == live

\* poll()'s catch: clearInterval(intervalId) on an authentication error
pollCatch(msg, timer, live) ==
    IF IncludesLogin(msg) THEN live \ {timer} ELSE live

\* the cleanup without its clearInterval
stopPollingKeepsTimer(live, id) == live

\* the cleanup startDetectionPolling returns: clearInterval(intervalId)
stopPolling(live, id) == live \ {id}

\* ------------------------------------------------------------- App shell
InitialDetData == [src |-> 0, data |-> EmptyDetections, caught |-> FALSE]

LiveViewMounted == authenticated /\ page = "live"

\* setState of an unmounted component does nothing: what it left in flight
\* is orphaned
Orphan(set) == {[r EXCEPT !.alive = FALSE] : r \in set}

OrphanPcs(s) == [i \in DOMAIN s |-> [s[i] EXCEPT !.alive = FALSE]]

\* the page in view is removed: LiveView's state is dropped and the cleanup of
\* its auto-refresh effect (stopPolling) runs
DropPage ==
    /\ streamState' = "idle"
    /\ streamError' = ""
    /\ hasVideo' = FALSE
    /\ videoSrc' = 0
    /\ playPending' = FALSE
    /\ pcs' = OrphanPcs(pcs)
    /\ controlLoading' = NULL
    /\ controlMsg' = ""
    /\ cmds' = Orphan(cmds)
    /\ detData' = InitialDetData
    /\ autoRefresh' = FALSE
    /\ timers' = stopPolling(timers, effectTimer)
    /\ effectTimer' = 0

\* the mount effect of page p with token tok in the store: LiveView calls
\* refreshDetections(), History calls loadDetections(); with no token
\* authenticatedFetch throws before anything is sent
MountPage(p, tok) ==
    /\ HasToken(tok) => nextReq <= MaxReq
    /\ reqs' = IF ~HasToken(tok) THEN Orphan(reqs)
               ELSE Orphan(reqs) \cup
                    {Req(nextReq, IF p = "live" THEN "manual" ELSE "history", tok, 0)}
    /\ nextReq' = IF ~HasToken(tok) THEN nextReq ELSE nextReq + 1
    /\ detectionsLoading' = (p = "live" /\ HasToken(tok))

\* ------------------------------------------------------------ pages/Login
\* Login.handleSubmit up to the await of login()
\* login() storing the username before it knows the answer
loginStoreUsernameFirst(ok, tok, store) ==
    IF ok THEN [access_token |-> tok, username |-> "testuser"]
    ELSE [store EXCEPT !.username = "testuser"]

\* sessionStorage after login() settled: both keys are set once the answer
\* is OK and parsed, nothing is written when it throws
loginStore(ok, tok, store) ==
    IF ok THEN [access_token |-> tok, username |-> "testuser"] ELSE store

LoginSubmit ==
    /\ ~authenticated
    /\ ~loginLoading
    /\ nextToken <= MaxLogins
    /\ loginLoading' = TRUE
    /\ loginError' = ""
    /\ UNCHANGED gate
    /\ UNCHANGED <<session, authenticated, page, nextToken, stream, control, poller>>

\* login() resolves: the token is stored, App.handleLoginSuccess shows the page
LoginOk ==
    /\ loginLoading
    /\ sessionStorage' = loginStore(TRUE, nextToken, sessionStorage)
    /\ UNCHANGED expired
    /\ nextToken' = nextToken + 1
    /\ loginLoading' = FALSE
    /\ authenticated' = TRUE
    /\ MountPage(page, nextToken)
    /\ UNCHANGED gate
    /\ UNCHANGED <<page, loginError, stream, control, detData, autoRefresh, timers,
                   effectTimer, nextTimer>>

\* login() rejects (transport error or non-OK response)
LoginFail ==
    /\ loginLoading
    /\ loginLoading' = FALSE
    /\ loginError' = "Login failed"
    /\ sessionStorage' = loginStore(FALSE, nextToken, sessionStorage)
    /\ UNCHANGED gate
    /\ UNCHANGED <<expired, authenticated, page, nextToken, stream, control, poller>>

\* App.handleLogout
Logout ==
    /\ authenticated
    /\ sessionStorage' = logout
    /\ UNCHANGED expired
    /\ authenticated' = FALSE
    /\ DropPage
    /\ reqs' = Orphan(reqs)
    /\ detectionsLoading' = FALSE
    /\ UNCHANGED gate
    /\ UNCHANGED <<page, loginLoading, loginError, nextToken, nextCmd, nextTimer, nextReq>>

\* Sidebar onNavigate: setPage(p)
Navigate(p) ==
    /\ authenticated
    /\ p # page
    /\ page' = p
    /\ DropPage
    /\ MountPage(p, getToken)
    /\ UNCHANGED gate
    /\ UNCHANGED <<session, authenticated, loginLoading, loginError, nextToken, nextCmd,
                   nextTimer>>

\* ------------------------------------------- pages/LiveView: detections
\* what refreshDetections / the polling callback do with a settled
\* getLatestDetections: setDetData(latest) unless it threw
applyDetections(res, id, current) ==
    IF res.throws THEN current
    ELSE [src |-> id, data |-> res.data, caught |-> res.caught]

\* handleAutoRefreshToggle, and the auto-refresh effect its state change runs
\* (button disabled while detectionsLoading)
ToggleOn ==
    /\ LiveViewMounted
    /\ ~detectionsLoading
    /\ ~autoRefresh
    /\ nextTimer <= MaxTimers
    /\ HasToken(getToken) => nextReq + 1 <= MaxReq
    /\ autoRefresh' = TRUE
    /\ effectTimer' = nextTimer
    /\ nextTimer' = nextTimer + 1
    /\ IF ~HasToken(getToken)
       THEN /\ detectionsLoading' = FALSE
            /\ timers' = pollCatch(getLatestDetectionsNoToken.msg, nextTimer,
                                   timers \cup {nextTimer})
            /\ UNCHANGED <<reqs, nextReq>>
       ELSE /\ detectionsLoading' = TRUE
            /\ timers' = timers \cup {nextTimer}
            /\ reqs' = reqs \cup {Req(nextReq, "manual", getToken, 0),
                                  Req(nextReq + 1, "poll", getToken, nextTimer)}
            /\ nextReq' = nextReq + 2
    /\ UNCHANGED gate
    /\ UNCHANGED <<session, app, stream, control, detData>>

ToggleOff ==
    /\ LiveViewMounted
    /\ ~detectionsLoading
    /\ autoRefresh
    /\ autoRefresh' = FALSE
    /\ timers' = stopPolling(timers, effectTimer)
    /\ effectTimer' = 0
    /\ UNCHANGED gate
    /\ UNCHANGED <<session, app, stream, control, detData, detectionsLoading, nextTimer,
                   reqs, nextReq>>

\* a setInterval timer fires: poll()
Tick(t) ==
    /\ t \in timers
    /\ IF ~HasToken(getToken)
       THEN /\ timers' = pollCatch(getLatestDetectionsNoToken.msg, t, timers)
            /\ UNCHANGED <<reqs, nextReq>>
       ELSE /\ nextReq <= MaxReq
            /\ reqs' = reqs \cup {Req(nextReq, "poll", getToken, t)}
            /\ nextReq' = nextReq + 1
            /\ UNCHANGED timers
    /\ UNCHANGED gate
    /\ UNCHANGED <<session, app, stream, control, detData, detectionsLoading, autoRefresh,
                   effectTimer, nextTimer>>

\* the backend (or the transport) answers a request in flight
Respond(r, k) ==
    /\ r \in reqs
    /\ r.resp = "pending"
    /\ reqs' = (reqs \ {r}) \cup {[r EXCEPT !.resp = k]}
    /\ UNCHANGED gate
    /\ UNCHANGED <<session, app, stream, control, detData, detectionsLoading, autoRefresh,
                   timers, effectTimer, nextTimer, nextReq>>

\* the awaiting caller resumes with the answer: authenticatedFetch, then
\* getLatestDetections, then refreshDetections or poll
Settle(r) ==
    /\ r \in reqs
    /\ r.resp # "pending"
    /\ reqs' = reqs \ {r}
    /\ sessionStorage' = authenticatedFetchStore(r.resp, sessionStorage)
    /\ UNCHANGED expired
    /\ LET res == getLatestDetectionsResult(r.resp)
       IN  CASE r.src = "manual" ->
                  /\ detData' = IF r.alive THEN applyDetections(res, r.id, detData)
                                ELSE detData
                  /\ detectionsLoading' = IF r.alive THEN FALSE ELSE detectionsLoading
                  /\ UNCHANGED timers
             [] r.src = "poll" ->
                  /\ detData' = IF r.alive THEN applyDetections(res, r.id, detData)
                                ELSE detData
                  /\ timers' = IF res.throws THEN pollCatch(res.msg, r.timer, timers)
                               ELSE timers
                  /\ UNCHANGED detectionsLoading
             [] OTHER -> UNCHANGED <<detData, detectionsLoading, timers>>
    /\ UNCHANGED gate
    /\ UNCHANGED <<app, stream, control, autoRefresh, effectTimer, nextTimer, nextReq>>

\* ----------------------------------------------- pages/LiveView: stream
\* startStream's guard without its "streaming" test
StartBlockedWhileConnecting(s) == s = "connecting"

\* startStream's guard (and the start button's disabled attribute)
StartBlocked(s) == s \in {"connecting", "streaming"}

\* the awaits of a connection attempt, in order
NextPhase(ph) ==
    CASE ph = "createOffer" -> "setLocalDescription"
      [] ph = "setLocalDescription" -> "fetch"
      [] ph = "fetch" -> "setRemoteDescription"
      [] ph = "setRemoteDescription" -> "done"

InFlight(pc) == pc.phase \in {"createOffer", "setLocalDescription", "fetch",
                              "setRemoteDescription"}

\* startStream entering "streaming" as soon as the answer is applied
answerMeansStreaming(s) == "streaming"

\* startStream's catch going back to "idle"
catchStateIdle == "idle"

\* stream state when the last await of startStream resolves: the code sets
\* nothing there
afterAnswer(s) == s

\* stream state set by startStream's catch
catchState == "error"

\* startStream's catch starting the next attempt by itself
pcsRetryAfterCatch(ps) ==
    Append(ps, [phase |-> "createOffer", alive |-> TRUE, tracked |-> FALSE])

\* the connections after startStream's catch: it creates none
pcsAfterCatch(ps) == ps

\* play()'s handlers entering "streaming" only when play() resolved
afterPlayResolved(ok, s) == IF ok THEN "streaming" ELSE s

\* stream state set when videoRef.current.play() settles: its .then and its
\* .catch both set "streaming"
afterPlay(ok, s) == "streaming"

\* whether LiveView has released a connection it created: pc.close() is
\* called nowhere, neither in startStream's catch nor on unmount
pcClosed(pc) == FALSE

StreamUnavailable == "Stream unavailable. Check Jetson URL / backend status, then try again."

\* startStream up to its first await
StartStream ==
    /\ LiveViewMounted
    /\ IF StartBlocked(streamState)
       THEN UNCHANGED vars
       ELSE /\ Len(pcs) < MaxAttempts
            /\ streamState' = "connecting"
            /\ streamError' = ""
            /\ hasVideo' = FALSE
            /\ pcs' = Append(pcs, [phase |-> "createOffer", alive |-> TRUE,
                                   tracked |-> FALSE])
            /\ UNCHANGED <<session, app, videoSrc, playPending, control, poller, gate>>

\* an await of attempt i resolves
AttemptStep(i) ==
    /\ i \in DOMAIN pcs
    /\ InFlight(pcs[i])
    /\ pcs' = [pcs EXCEPT ![i].phase = NextPhase(pcs[i].phase)]
    /\ streamState' = IF pcs[i].alive /\ NextPhase(pcs[i].phase) = "done"
                      THEN afterAnswer(streamState) ELSE streamState
    /\ UNCHANGED gate
    /\ UNCHANGED <<session, app, streamError, hasVideo, videoSrc, playPending, control,
                   poller>>

\* an await of attempt i rejects, or /offer answers with a non-OK status
AttemptFail(i) ==
    /\ i \in DOMAIN pcs
    /\ InFlight(pcs[i])
    /\ IF pcs[i].alive
       THEN /\ pcs' = pcsAfterCatch([pcs EXCEPT ![i].phase = "failed"])
            /\ streamState' = catchState
            /\ streamError' = StreamUnavailable
       ELSE /\ pcs' = [pcs EXCEPT ![i].phase = "failed"]
            /\ UNCHANGED <<streamState, streamError>>
    /\ UNCHANGED gate
    /\ UNCHANGED <<session, app, hasVideo, videoSrc, playPending, control, poller>>

\* pc.ontrack of attempt i, once its remote description is applied; the event
\* may carry no stream
OnTrack(i, withStream) ==
    /\ i \in DOMAIN pcs
    /\ pcs[i].phase = "done"
    /\ ~pcs[i].tracked
    /\ pcs' = [pcs EXCEPT ![i].tracked = TRUE]
    /\ IF pcs[i].alive /\ withStream
       THEN /\ videoSrc' = i
            /\ playPending' = TRUE
       ELSE UNCHANGED <<videoSrc, playPending>>
    /\ UNCHANGED gate
    /\ UNCHANGED <<session, app, streamState, streamError, hasVideo, control, poller>>

\* the transport of attempt i closes for good after its answer was applied
\* (peer gone, ICE failed): startStream registers ontrack and nothing else on
\* the connection, so no handler of LiveView runs
ConnectionClosed(i) ==
    /\ i \in DOMAIN pcs
    /\ pcs[i].phase = "done"
    /\ pcs' = [pcs EXCEPT ![i].phase = "closed"]
    /\ UNCHANGED gate
    /\ UNCHANGED <<session, app, streamState, streamError, hasVideo, videoSrc,
                   playPending, control, poller>>

\* videoRef.current.play() settles: .then or .catch
PlaySettled(ok) ==
    /\ playPending
    /\ playPending' = FALSE
    /\ hasVideo' = IF ok THEN TRUE ELSE hasVideo
    /\ streamState' = afterPlay(ok, streamState)
    /\ UNCHANGED gate
    /\ UNCHANGED <<session, app, streamError, videoSrc, pcs, control, poller>>

\* the <video> element fires playing
OnPlaying ==
    /\ LiveViewMounted
    /\ videoSrc # 0
    /\ hasVideo' = TRUE
    /\ streamState' = "streaming"
    /\ UNCHANGED gate
    /\ UNCHANGED <<session, app, streamError, videoSrc, playPending, pcs, control, poller>>

\* --------------------------------------------- pages/LiveView: commands
\* the handlers reporting success whatever the call did
CommandMsgSuccess(kind, ok) ==
    IF kind = "stop" THEN "Stop tracking command sent successfully."
    ELSE "Mark as threat command sent successfully."

CommandMsg(kind, ok) ==
    CASE kind = "stop" /\ ok -> "Stop tracking command sent successfully."
      [] kind = "stop" /\ ~ok -> "Failed to send stop tracking command (Jetson API not reachable yet)."
      [] kind = "threat" /\ ok -> "Mark as threat command sent successfully."
      [] kind = "threat" /\ ~ok -> "Failed to send mark threat command (Jetson API not reachable yet)."

\* the command handlers logging out when the device refuses the command
commandStoreLogoutOnFail(resp, store) ==
    IF resp = "fail" THEN NoSession ELSE store

\* the stored session after sendStopTracking / sendMarkThreat settled: they
\* use the plain fetch and the handlers touch no storage
commandStore(resp, store) == store

\* the command buttons are disabled while a command is loading
CommandDisabled(loading) == loading # NULL

\* handleStopTracking / handleMarkThreat up to the await
SendCommand(kind) ==
    /\ LiveViewMounted
    /\ ~CommandDisabled(controlLoading)
    /\ nextCmd <= MaxCmds
    /\ controlMsg' = ""
    /\ controlLoading' = kind
    /\ cmds' = cmds \cup {[id |-> nextCmd, kind |-> kind, alive |-> TRUE,
                            resp |-> "pending"]}
    /\ nextCmd' = nextCmd + 1
    /\ UNCHANGED gate
    /\ UNCHANGED <<session, app, stream, poller>>

\* the device answers the POST of sendStopTracking / sendMarkThreat (ok), or
\* the fetch rejects or answers with a non-OK status (fail)
CommandRespond(c, k) ==
    /\ c \in cmds
    /\ c.resp = "pending"
    /\ cmds' = (cmds \ {c}) \cup {[c EXCEPT !.resp = k]}
    /\ UNCHANGED gate
    /\ UNCHANGED <<session, app, stream, controlLoading, controlMsg, nextCmd, poller>>

\* the handlers sending a failed command once more from their catch
cmdsRetryAfterSettle(cs, c) ==
    IF c.resp = "fail" /\ c.alive
    THEN cs \cup {[c EXCEPT !.resp = "pending", !.id = c.id + MaxCmds]}
    ELSE cs

\* the requests under way once a command settled: try, catch and finally of
\* the handlers send nothing
cmdsAfterSettle(cs, c) == cs

\* sendStopTracking / sendMarkThreat settles: try/catch/finally of the handler
CommandSettled(c) ==
    /\ c \in cmds
    /\ c.resp # "pending"
    /\ cmds' = cmdsAfterSettle(cmds \ {c}, c)
    /\ IF c.alive
       THEN /\ controlMsg' = CommandMsg(c.kind, c.resp = "ok")
            /\ controlLoading' = NULL
       ELSE UNCHANGED <<controlMsg, controlLoading>>
    /\ UNCHANGED gate
    /\ sessionStorage' = commandStore(c.resp, sessionStorage)
    /\ UNCHANGED <<expired, app, stream, nextCmd, poller>>

\* ------------------------------------------------------------ the system
UiStart(firstReq) ==
    /\ sessionStorage = NoSession
    /\ expired = {}
    /\ authenticated = FALSE
    /\ page = "live"
    /\ loginLoading = FALSE
    /\ loginError = ""
    /\ nextToken = 1
    /\ streamState = "idle"
    /\ streamError = ""
    /\ hasVideo = FALSE
    /\ videoSrc = 0
    /\ playPending = FALSE
    /\ pcs = <<>>
    /\ controlLoading = NULL
    /\ controlMsg = ""
    /\ cmds = {}
    /\ nextCmd = 1
    /\ detData = InitialDetData
    /\ detectionsLoading = FALSE
    /\ autoRefresh = FALSE
    /\ timers = {}
    /\ effectTimer = 0
    /\ nextTimer = 1
    /\ reqs = {}
    /\ nextReq = firstReq

\* ------------------------------------------------ edge side: UploadGate
Categories == {"person", "book"}

\* no GateEntry for the category
NoEntry == -1

\* shouldReport taking an entry for expired only when it is older than the
\* cooldown
shouldReportStrict(es, c, t, cd) ==
    IF es[c] = NoEntry \/ t - es[c] > cd
    THEN [report |-> TRUE, entries |-> [es EXCEPT ![c] = t]]
    ELSE [report |-> FALSE, entries |-> es]

\* shouldReport never taking an entry for expired
shouldReportOnce(es, c, t, cd) ==
    IF es[c] = NoEntry
    THEN [report |-> TRUE, entries |-> [es EXCEPT ![c] = t]]
    ELSE [report |-> FALSE, entries |-> es]

\* observe removing an entry as soon as its age reaches the cooldown
observeAtCooldown(es, P, t, cd) ==
    [c \in DOMAIN es |->
        IF es[c] # NoEntry /\ c \notin P /\ t - es[c] >= cd THEN NoEntry ELSE es[c]]

\* shouldReport(category, now, cooldown): the verdict and the entries it leaves
shouldReport(es, c, t, cd) ==
    IF es[c] = NoEntry
    THEN [report |-> TRUE, entries |-> [es EXCEPT ![c] = t]]
    ELSE IF t - es[c] >= cd
         THEN [report |-> TRUE, entries |-> [[es EXCEPT ![c] = NoEntry] EXCEPT ![c] = t]]
         ELSE [report |-> FALSE, entries |-> es]

\* observe(presentCategories, now, cooldown): entries of absent categories
\* older than the cooldown are removed
observe(es, P, t, cd) ==
    [c \in Categories |->
        IF es[c] # NoEntry /\ c \notin P /\ t - es[c] > cd THEN NoEntry ELSE es[c]]

GateIdle ==
    /\ entries = [c \in Categories |-> NoEntry]
    /\ now = 0
    /\ present = {}
    /\ lastReport = [c \in Categories |-> NoEntry]
    /\ absentSince = [c \in Categories |-> FALSE]

\* a detection cycle begins dt later with the categories P in view
Cycle(dt, P) ==
    /\ now + dt <= MaxTime
    /\ now' = now + dt
    /\ present' = P
    /\ entries' = observe(entries, P, now + dt, cooldown)
    /\ absentSince' = [c \in Categories |-> absentSince[c] \/ c \notin P]
    /\ UNCHANGED <<cooldown, lastReport, ui>>

\* the cycle asks the gate about a category in view
ShouldReport(c) ==
    /\ c \in present
    /\ LET r == shouldReport(entries, c, now, cooldown)
       IN  /\ entries' = r.entries
           /\ lastReport' = IF r.report THEN [lastReport EXCEPT ![c] = now] ELSE lastReport
           /\ absentSince' = IF r.report THEN [absentSince EXCEPT ![c] = FALSE]
                             ELSE absentSince
    /\ UNCHANGED <<now, cooldown, present, ui>>

GateNext ==
    \/ \E dt \in 0..MaxTime, P \in SUBSET Categories : Cycle(dt, P)
    \/ \E c \in Categories : ShouldReport(c)

\* the dashboard as the page loads
UiInit == UiStart(1)

\* the same with the requests numbered from 0, which leaves room for one
\* request more below MaxReq
InitRelogin ==
    /\ UiStart(0)
    /\ GateIdle
    /\ cooldown = MaxCooldown

Init ==
    /\ UiInit
    /\ GateIdle
    /\ cooldown = MaxCooldown

GateInit ==
    /\ UiInit
    /\ GateIdle
    /\ cooldown \in 1..MaxCooldown

\* the App shell: login, logout, navigation between the pages
AppNext ==
    \/ LoginSubmit
    \/ LoginOk
    \/ LoginFail
    \/ Logout
    \/ \E p \in {"live", "history"} : Navigate(p)

\* the detection poller and the guarded requests
PollNext ==
    \/ ToggleOn
    \/ ToggleOff
    \/ \E t \in timers : Tick(t)
    \/ \E r \in reqs, k \in RespKinds : Respond(r, k)
    \/ \E r \in reqs : Settle(r)

\* the stream connection
StreamNext ==
    \/ StartStream
    \/ \E i \in DOMAIN pcs : AttemptStep(i)
    \/ \E i \in DOMAIN pcs : AttemptFail(i)
    \/ \E i \in DOMAIN pcs : ConnectionClosed(i)
    \/ \E i \in DOMAIN pcs, withStream \in BOOLEAN : OnTrack(i, withStream)
    \/ \E ok \in BOOLEAN : PlaySettled(ok)
    \/ OnPlaying

\* the device commands
ControlNext ==
    \/ \E kind \in {"stop", "threat"} : SendCommand(kind)
    \/ \E c \in cmds, k \in {"ok", "fail"} : CommandRespond(c, k)
    \/ \E c \in cmds : CommandSettled(c)

\* the clock passes the 60 minutes of a token the /login endpoint issued
TokenExpires(t) ==
    /\ t \in 1..(nextToken - 1)
    /\ t \notin expired
    /\ expired' = expired \cup {t}
    /\ UNCHANGED gate
    /\ UNCHANGED <<sessionStorage, app, stream, control, poller>>

\* the passing of time against the tokens' lifetime
ExpiryNext == \E t \in 1..MaxLogins : TokenExpires(t)

Next == AppNext \/ PollNext \/ StreamNext \/ ControlNext \/ ExpiryNext \/ GateNext

\* the whole system
Spec == Init /\ [][Next]_vars

\* The components of LiveView read none of each other's state: they meet only
\* in the session store and in the App shell that mounts them, so each is
\* checked together with the shell.

\* the dashboard with its detection poller
SpecPoll == Init /\ [][AppNext \/ PollNext]_vars

\* the dashboard with its stream connection
SpecStream == Init /\ [][AppNext \/ StreamNext]_vars

\* the dashboard with its device commands
SpecControl == Init /\ [][AppNext \/ ControlNext]_vars

\* the dashboard with its detection poller over two sessions with auto
\* refresh in the first
SpecRelogin == InitRelogin /\ [][AppNext \/ PollNext]_vars

\* the dashboard with its detection poller while tokens run out
SpecExpiry == Init /\ [][AppNext \/ PollNext \/ ExpiryNext]_vars

\* the device commands when every call settles
ControlFairness ==
    /\ \A k \in 1..MaxCmds :
          WF_vars(\E c \in cmds, o \in {"ok", "fail"} : c.id = k /\ CommandRespond(c, o))
    /\ \A k \in 1..MaxCmds :
          WF_vars(\E c \in cmds : c.id = k /\ CommandSettled(c))

SpecControlLive == SpecControl /\ ControlFairness

\* the stream connection when every await and every play() settles; starting
\* is left to the user
StreamFairness ==
    /\ WF_vars(\E i \in DOMAIN pcs : AttemptStep(i))
    /\ WF_vars(\E ok \in BOOLEAN : PlaySettled(ok))

SpecStreamLive == SpecStream /\ StreamFairness

\* the signaling of the stream connection: the attempts up to the answer
SignalNext ==
    \/ StartStream
    \/ \E i \in DOMAIN pcs : AttemptStep(i)
    \/ \E i \in DOMAIN pcs : AttemptFail(i)

\* logging in and out, which mounts and unmounts LiveView
SessionNext ==
    \/ LoginSubmit
    \/ LoginOk
    \/ Logout

\* the dashboard with what talks to the device: signaling and commands
SpecDevice == Init /\ [][SessionNext \/ SignalNext \/ ControlNext]_vars

\* the edge device's upload gate
SpecGate == GateInit /\ [][GateNext]_vars

\* ================================================================ claims

\* C1: single-flight polling: in every reachable state at most one telemetry
\* request (getLatestDetections) is outstanding. Stated here for the
\* requests of the mounted LiveView alone.
C1_SingleFlight ==
    Cardinality({r \in reqs : r.alive /\ r.src \in {"manual", "poll"}}) <= 1

\* C2: when a guarded call settles with a 401 the stored session is cleared,
\* and a token is readable again only through a login that succeeds.
C2_UnauthorizedInvalidates ==
    [][/\ \A r \in reqs :
            (r.resp = "unauthorized" /\ \A q \in reqs' : q.id # r.id)
                => (getToken' = NoToken /\ ~isAuthenticated')
       /\ (getToken = NoToken /\ getToken' # NoToken)
            => (loginLoading /\ ~loginLoading')]_vars

\* C2 witness: a 401 was handled: the App still shows its pages, the token is gone
C2_Witness == authenticated /\ getToken = NoToken /\ getUsername = NULL

\* C3: when a poll of an auto-refresh schedule settles with SessionExpired the
\* schedule's timer is cleared; every poll request is dispatched by a live
\* timer, and a timer id once cleared never comes back.
C3_ScheduleSelfCancels ==
    [][/\ \A r \in reqs :
            (r.src = "poll" /\ r.resp = "unauthorized" /\ \A q \in reqs' : q.id # r.id)
                => r.timer \notin timers'
       /\ \A q \in reqs' :
            (q.src = "poll" /\ \A r \in reqs : r.id # q.id) => q.timer \in timers'
       /\ \A t \in timers' \ timers : t = nextTimer /\ nextTimer' > t]_vars

\* C3 witness: auto-refresh is on but its schedule has cancelled itself while
\* the session is gone
C3_Witness ==
    /\ autoRefresh
    /\ effectTimer # 0
    /\ effectTimer \notin timers
    /\ getToken = NoToken
    /\ authenticated

\* C4: commands are mutually exclusive: at most one command request is
\* outstanding in every reachable state.
C4_OneCommand == Cardinality(cmds) <= 1

\* C5: every step that enters Connecting starts from Idle or Error, never
\* from Streaming.
C5_NoStreamingToConnecting ==
    [][(streamState' = "connecting" /\ streamState # "connecting")
            => streamState \in {"idle", "error"}]_vars

\* C5 witness: a second attempt is Connecting after the first one failed,
\* re-entered from Error
C5_Witness ==
    /\ streamState = "connecting"
    /\ Len(pcs) = 2
    /\ pcs[1].alive
    /\ pcs[1].phase = "failed"
    /\ InFlight(pcs[2])

\* C6: a category is reported again only after the cooldown has elapsed since
\* its last report and it was observed absent in between; a category that
\* stays in view is never reported twice.
C6_ReportAgainOnlyAfterAbsence ==
    [][\A c \in Categories :
            (lastReport[c] # NoEntry /\ lastReport'[c] # lastReport[c])
                => (now' - lastReport[c] >= cooldown /\ absentSince[c])]_vars

\* C7: the visible snapshot never moves from the result of a later-dispatched
\* request back to the result of an earlier-dispatched one.
C7_DispatchOrder ==
    [][detData'.src >= detData.src \/ detData' = InitialDetData]_vars

\* C8: at most one connection attempt is in flight at any time.
C8_OneAttempt == Cardinality({i \in DOMAIN pcs : InFlight(pcs[i])}) <= 1

\* C9 as claimed: once the attempt of the mounted LiveView has applied the
\* remote answer the stream is Streaming.
C9_StreamingOnAnswer ==
    \A i \in DOMAIN pcs :
        (pcs[i].alive /\ pcs[i].phase = "done") => streamState = "streaming"

\* C9 as amended: applying the remote answer leaves the stream state as it
\* is; the stream is Streaming only once a track with a stream of an attempt
\* whose answer was applied is attached to the video element.
C9_StreamingOnTrack ==
    [][/\ \A i \in DOMAIN pcs :
            (pcs[i].phase # "done" /\ pcs'[i].phase = "done")
                => streamState' = streamState
       /\ streamState' = "streaming"
            => (/\ videoSrc' \in DOMAIN pcs'
                /\ pcs'[videoSrc'].phase \in {"done", "closed"}
                /\ pcs'[videoSrc'].tracked)]_vars

\* C9 witness: Streaming was entered although play() was rejected and no
\* playback was confirmed
C9_Witness == streamState = "streaming" /\ videoSrc # 0 /\ ~hasVideo /\ ~playPending

\* C10: a failure of the mounted LiveView's attempt at any of its awaits moves
\* the stream to Error and leaves the stored session as it was.
C10_FailureMeansError ==
    [][\A i \in DOMAIN pcs :
            (pcs[i].alive /\ InFlight(pcs[i]) /\ pcs'[i].phase = "failed")
                => (streamState' = "error" /\ sessionStorage' = sessionStorage)]_vars

\* C10 witness: an attempt of the mounted LiveView has failed, the
\* stream is in Error and the token is still readable
C10_Witness ==
    /\ streamState = "error"
    /\ streamError = StreamUnavailable
    /\ getToken # NoToken
    /\ \E i \in DOMAIN pcs : pcs[i].alive /\ pcs[i].phase = "failed"

\* C11: when the transport of the mounted LiveView's attempt closes for good
\* while the stream is Streaming, the stream moves to Error.
C11_CloseMeansError ==
    [][\A i \in DOMAIN pcs :
            (/\ pcs[i].alive
             /\ streamState = "streaming"
             /\ videoSrc = i
             /\ pcs[i].phase = "done"
             /\ pcs'[i].phase = "closed")
                => streamState' = "error"]_vars

\* C12: a step of the mounted dashboard that makes a guarded call while no
\* token is stored (a toggle, a tick, a page mounting) sends no request and
\* leaves the stored session as it was; every request that is sent carries
\* the token readable at that moment.
C12_NoTokenNoRequest ==
    [][/\ (/\ getToken = NoToken
           /\ authenticated
           /\ authenticated'
           /\ (autoRefresh' # autoRefresh \/ timers' # timers \/ page' # page))
            => (/\ nextReq' = nextReq
                /\ \A q \in reqs' : \E r \in reqs : r.id = q.id
                /\ sessionStorage' = sessionStorage)
       /\ \A q \in reqs' :
            (\A r \in reqs : r.id # q.id)
                => (q.token # NoToken /\ q.token = getTokenOf(sessionStorage'))]_vars

\* C12 witness: auto refresh was switched on in a LiveView whose only request
\* ever sent was the one of its mount, because the token was gone by then
C12_Witness ==
    /\ authenticated
    /\ page = "live"
    /\ getToken = NoToken
    /\ autoRefresh
    /\ nextReq = 2
    /\ reqs = {}

C14_NoRequestWithExpiredToken ==
    [][\A q \in reqs' :
            (\A r \in reqs : r.id # q.id) => q.token \notin expired]_vars

\* C15: when a guarded call of the mounted page settles with a 401, the App
\* stops being authenticated, so that the login view is shown.
C15_ExpiredShowsLogin ==
    [][\A r \in reqs :
            (/\ r.alive
             /\ r.resp = "unauthorized"
             /\ \A q \in reqs' : q.id # r.id)
                => ~authenticated']_vars

\* C16: when the command of the mounted LiveView settles, no command is
\* loading any more, the command buttons are enabled again and the message
\* shown is the one of that command and of its outcome; and, every call
\* settling, every command that was sent leaves and the loading flag is
\* cleared.
C16_SettleClearsPending ==
    /\ [][\A c \in cmds :
              (c.alive /\ \A d \in cmds' : d.id # c.id)
                  => (/\ controlLoading' = NULL
                      /\ ~CommandDisabled(controlLoading')
                      /\ c.resp = "ok" /\ c.kind = "stop"
                            => controlMsg' = "Stop tracking command sent successfully."
                      /\ c.resp = "ok" /\ c.kind = "threat"
                            => controlMsg' = "Mark as threat command sent successfully."
                      /\ c.resp = "fail" /\ c.kind = "stop"
                            => controlMsg' = "Failed to send stop tracking command (Jetson API not reachable yet)."
                      /\ c.resp = "fail" /\ c.kind = "threat"
                            => controlMsg' = "Failed to send mark threat command (Jetson API not reachable yet).")]_vars
    /\ \A k \in 1..MaxCmds :
          (\E c \in cmds : c.id = k) ~> ~(\E c \in cmds : c.id = k)
    /\ (controlLoading # NULL) ~> (controlLoading = NULL)

\* C16 witness: a mark-threat command failed, its message is shown and the
\* buttons are enabled for the next command
C16_Witness ==
    /\ controlLoading = NULL
    /\ controlMsg = "Failed to send mark threat command (Jetson API not reachable yet)."
    /\ cmds = {}

\* C17: a stream that is Idle or Error leaves that state only by a start,
\* which makes it Connecting with one new attempt, or by LiveView unmounting;
\* and an attempt is only ever created by a start from Idle or Error.
C17_NoAutomaticRetry ==
    [][/\ (streamState \in {"idle", "error"} /\ streamState' # streamState)
            => \/ streamState' = "connecting" /\ Len(pcs') = Len(pcs) + 1
               \/ streamState' = "idle" /\ ~LiveViewMounted'
       /\ Len(pcs') > Len(pcs)
            => (streamState \in {"idle", "error"} /\ streamState' = "connecting")]_vars

\* C17 witness: two attempts of the mounted LiveView failed one after the
\* other, each started by hand, and the stream rests in Error
C17_Witness ==
    /\ streamState = "error"
    /\ Len(pcs) = 2
    /\ \A i \in DOMAIN pcs : pcs[i].alive /\ pcs[i].phase = "failed"

C19_StopCancels ==
    [][/\ (effectTimer # 0 /\ effectTimer' # effectTimer)
            => effectTimer \notin timers'
       /\ (effectTimer # 0 /\ effectTimer' # effectTimer /\ effectTimer \notin timers)
            => timers' \ {effectTimer'} = timers
       /\ \A q \in reqs' :
            (q.src = "poll" /\ \A r \in reqs : r.id # q.id)
                => (q.timer = effectTimer' /\ q.timer \in timers')]_vars

\* C19 witness: auto refresh was switched off in the mounted LiveView while a
\* poll of its schedule was still outstanding
C19_Witness ==
    /\ ~autoRefresh
    /\ \E r \in reqs : r.src = "poll" /\ r.alive /\ r.timer \notin timers

\* C20: the answer of a poll that settles after its schedule was stopped is
\* not applied to the detections shown.
C20_LatePollDiscarded ==
    [][\A r \in reqs :
            (/\ r.src = "poll"
             /\ r.alive
             /\ r.timer \notin timers
             /\ \A q \in reqs' : q.id # r.id)
                => detData' = detData]_vars

\* C21: at most one connection that LiveView created and has not released
\* exists at any time.
C21_OneUnreleased ==
    Cardinality({i \in DOMAIN pcs : ~pcClosed(pcs[i])}) <= 1

\* C22 as claimed: while the stream is Idle or Connecting no media stream is
\* attached to the video element.
C22_NoHandleOutsideStreaming ==
    streamState \in {"idle", "connecting"} => videoSrc = 0

\* C22 as amended: while the stream is Idle no media stream is attached to
\* the video element; while it is Connecting the only stream that can be
\* attached is the one of the attempt under way, of the mounted LiveView,
\* and only until the play() started on attaching it settles.
C22_HandleOnlyWhilePlayPending ==
    /\ streamState = "idle" => videoSrc = 0
    /\ (streamState = "connecting" /\ videoSrc # 0)
          => (/\ playPending
              /\ videoSrc = Len(pcs)
              /\ pcs[videoSrc].alive
              /\ pcs[videoSrc].tracked)

\* C22 witness: the track of the attempt under way is attached and play() has
\* not settled yet, the stream still Connecting
C22_Witness == streamState = "connecting" /\ videoSrc # 0 /\ playPending

\* C27: after the connection showing in the mounted LiveView has closed for
\* good, a new connection attempt is eventually started (or LiveView is
\* left).
C27_Reconnects ==
    \A i \in 1..MaxAttempts :
        (/\ i \in DOMAIN pcs
         /\ pcs[i].alive
         /\ streamState = "streaming"
         /\ videoSrc = i
         /\ pcs[i].phase = "closed")
            ~> (i \in DOMAIN pcs /\ (Len(pcs) > i \/ ~pcs[i].alive))

\* C28: the stored session changes only by a login that succeeds, by a
\* logout, or by a guarded call settling with a 401; a step of the stream
\* connection or of a device command leaves it as it was.
C28_SessionFrame ==
    [][/\ sessionStorage' # sessionStorage
            => \/ loginLoading /\ ~loginLoading' /\ getTokenOf(sessionStorage') # NoToken
               \/ authenticated /\ ~authenticated' /\ sessionStorage' = NoSession
               \/ /\ sessionStorage' = NoSession
                  /\ \E r \in reqs :
                        r.resp = "unauthorized" /\ \A q \in reqs' : q.id # r.id
       /\ (/\ authenticated' = authenticated
           /\ page' = page
           /\ loginLoading' = loginLoading
           /\ (cmds' # cmds \/ pcs' # pcs \/ streamState' # streamState
                 \/ playPending' # playPending \/ hasVideo' # hasVideo))
            => sessionStorage' = sessionStorage]_vars

\* C28 witness: a stop command was refused by the device and an attempt to
\* connect failed, and the token is still readable
C28_Witness ==
    /\ getToken # NoToken
    /\ controlLoading = NULL
    /\ controlMsg = "Failed to send stop tracking command (Jetson API not reachable yet)."
    /\ streamState = "error"

C24_ObserveRemovesAbsentExpired ==
    [][/\ (now' # now \/ present' # present)
            => \A c \in Categories :
                  entries'[c] = IF /\ entries[c] # NoEntry
                                   /\ c \notin present'
                                   /\ now' - entries[c] > cooldown
                                THEN NoEntry ELSE entries[c]
       /\ \A c \in Categories : entries'[c] # NoEntry => lastReport'[c] # NoEntry]_vars

\* C24 witness: a category was reported, went out of view and lost its entry
\* while the other, out of view for exactly the cooldown, kept its own
C24_Witness ==
    \E c, d \in Categories :
        /\ lastReport[c] # NoEntry
        /\ entries[c] = NoEntry
        /\ present = {}
        /\ entries[d] # NoEntry
        /\ now - entries[d] = cooldown

\* C25: with the cooldown of 3000 ms: 'person' in view at 0 ms is reported;
\* at 1000 ms it is not; with nothing in view at 1500 ms its entry is kept;
\* at 4000 ms it is reported again. Both for the calls taken by themselves
\* and in every run of the gate that comes by these moments.
C25_ExampleTrace ==
    /\ LET e0 == [c \in Categories |-> NoEntry]
           r1 == shouldReport(e0, "person", 0, UPLOAD_DEBOUNCE)
           r2 == shouldReport(r1.entries, "person", 2, UPLOAD_DEBOUNCE)
           e3 == observe(r2.entries, {}, 3, UPLOAD_DEBOUNCE)
           r4 == shouldReport(e3, "person", 8, UPLOAD_DEBOUNCE)
       IN  /\ r1.report
           /\ ~r2.report
           /\ e3["person"] = 0
           /\ r4.report
    /\ (cooldown = UPLOAD_DEBOUNCE /\ entries["person"] = 0)
          => LET r == shouldReport(entries, "person", now, cooldown)
             IN  /\ now = 2 => ~r.report
                 /\ now = 3 => observe(entries, {}, now, cooldown)["person"] = 0
                 /\ now = 8 => (r.report /\ r.entries["person"] = 8)

\* C25 witness: with the cooldown of 3000 ms, 'person' is in view at 4000 ms
\* and has just been reported
C25_Witness ==
    /\ cooldown = UPLOAD_DEBOUNCE
    /\ now = 8
    /\ "person" \in present
    /\ lastReport["person"] = 8
    /\ entries["person"] = 8

\* C26: a logout, and a guarded call settling with a 401, leave no token and
\* no username stored, whatever was stored before: a session, or nothing
\* because an earlier 401 or logout had cleared it already.
C26_LogoutClears ==
    [][(\/ authenticated /\ ~authenticated'
        \/ \E r \in reqs : r.resp = "unauthorized" /\ \A q \in reqs' : q.id # r.id)
            => (/\ sessionStorage' = NoSession
                /\ getTokenOf(sessionStorage') = NoToken
                /\ sessionStorage'.username = NULL)]_vars

\* C26 witness: two sessions were opened and each one was closed again
C26_Witness ==
    /\ ~authenticated
    /\ ~loginLoading
    /\ nextToken = 3
    /\ sessionStorage = NoSession

\* C29: every request a guarded call sends carries the token stored at the
\* moment it is sent, which is the one of the latest login.
C29_TokenReadAtDispatch ==
    [][\A q \in reqs' :
            (\A r \in reqs : r.id # q.id)
                => (/\ q.token = getTokenOf(sessionStorage')
                    /\ q.token = nextToken' - 1)]_vars

\* C29 witness: after a second login a request of the mounted page carries
\* the new token while a request of the first session is still outstanding
C29_Witness ==
    /\ getToken = 2
    /\ \E r \in reqs : r.alive /\ r.token = 2
    /\ \E r \in reqs : ~r.alive /\ r.token = 1

C31_NoCommandRetry ==
    [][LET sent == {d \in cmds' : \A c \in cmds : c.id # d.id}
           settled == {c \in cmds : \A d \in cmds' : d.id # c.id}
       IN  /\ Cardinality(sent) <= 1
           /\ sent # {} => (/\ LiveViewMounted
                            /\ controlLoading = NULL
                            /\ controlLoading' # NULL
                            /\ nextCmd' = nextCmd + 1
                            /\ \A d \in sent : d.id = nextCmd)
           /\ settled # {} => sent = {}]_vars

\* C31 witness: the one command dispatched was refused by the device and
\* nothing is under way
C31_Witness ==
    /\ nextCmd = 2
    /\ cmds = {}
    /\ controlLoading = NULL
    /\ controlMsg = "Failed to send stop tracking command (Jetson API not reachable yet)."

\* C32: whenever the schedule of the mounted LiveView has stopped on its own
\* (auto refresh still on, its timer no longer live) no token is stored.
C32_SelfCancelOnlyWithoutSession ==
    (autoRefresh /\ effectTimer # 0 /\ effectTimer \notin timers)
        => getToken = NoToken

\* C33: after a logout no timer is live and no telemetry request is sent
\* until the next login; and a poll of a session that a logout has ended,
\* still outstanding, changes nothing of what is stored when it settles.
C33_LogoutStopsSchedule ==
    [][/\ ~authenticated' => timers' = {}
       /\ (~authenticated /\ ~authenticated')
            => \A q \in reqs' : \E r \in reqs : r.id = q.id
       /\ \A r \in reqs :
            (/\ r.src = "poll"
             /\ ~r.alive
             /\ r.token # getToken
             /\ \A q \in reqs' : q.id # r.id)
                => sessionStorage' = sessionStorage]_vars

\* C34: the stream becomes Streaming only in a step that starts in
\* Connecting.
C34_StreamingOnlyFromConnecting ==
    [][(streamState # "streaming" /\ streamState' = "streaming")
            => streamState = "connecting"]_vars

\* C34 witness: after a failed first attempt the second one of the mounted
\* LiveView went from Connecting to Streaming
C34_Witness ==
    /\ streamState = "streaming"
    /\ Len(pcs) = 2
    /\ pcs[1].phase = "failed"
    /\ pcs[2].alive
    /\ videoSrc = 2

\* C35: a stream that is Connecting eventually is not Connecting any more
\* (Streaming, Error, or LiveView left).
C35_AttemptResolves == (streamState = "connecting") ~> (streamState # "connecting")

\* C36: a login that fails leaves both stored keys as they were; a login
\* that succeeds leaves stored the new token, never issued before, and the
\* username; and a token becomes readable only by a login that succeeds.
C36_LoginCreatesSession ==
    [][/\ (loginLoading /\ ~loginLoading' /\ ~authenticated')
            => sessionStorage' = sessionStorage
       /\ (loginLoading /\ ~loginLoading' /\ authenticated')
            => (/\ sessionStorage' = [access_token |-> nextToken, username |-> "testuser"]
                /\ nextToken' = nextToken + 1
                /\ \A r \in reqs : r.token < nextToken)
       /\ (getTokenOf(sessionStorage') \notin {NoToken, getToken})
            => (loginLoading /\ ~loginLoading' /\ authenticated')]_vars

\* C36 witness: a login has failed and nothing is stored
C36_Witness ==
    /\ loginError = "Login failed"
    /\ ~loginLoading
    /\ ~authenticated
    /\ sessionStorage = NoSession

====
